---- MODULE Spec2Model ----
(***************************************************************************)
(* The rectangular shortest-augmenting-path solver of src/cpp/lap.h:       *)
(* _solve (lines 437-462) and the templated augment (lines 308-429).       *)
(*                                                                         *)
(* Arrays are functions over 0..n-1, as the code indexes them.  Costs are  *)
(* doubles in the code; the model draws them from small integers, on which *)
(* double arithmetic is exact, and from +infinity, which is the value Inf. *)
(* One action is one step of _solve: the call of augment (its scratch      *)
(* initialisation), one iteration of the search loop, the dual update, one *)
(* iteration of the path walk, and the return.                             *)
(***************************************************************************)
EXTENDS Integers, Sequences, FiniteSets, TLC

\* ------------------------------------------------------------------ bounds
MaxNr == 3
MaxNc == 3
\* Finite matrices draw their entries from 0..MaxCost.
MaxCost == 2
\* Matrices with forbidden edges draw theirs from 0..MaxBarredCost and Inf.
MaxBarredCost == 1
\* Direct calls of augment: the shapes of the matrices and the number of calls.
MaxAugNr == 2
MaxAugNc == 3
MaxCalls == 4
\* The constants added to a matrix are -MaxShift..MaxShift.
MaxShift == 2
\* The largest matrices of the termination check draw their costs from 0..MaxLiveCost.
MaxLiveCost == 1
\* Matrices with negative entries draw theirs from -MaxSignedCost..MaxSignedCost.
MaxSignedCost == 2

\* INFINITY (the initial shortestPathCosts and lowest, the forbidden edge).
Inf == 1000000

VARIABLES
  cost_matrix,        \* the cost view, [0..nr-1 -> [0..nc-1 -> cost]]
  nr, nc,             \* its shape
  u, v,               \* row and column duals
  row4col, col4row,   \* the assignment, -1 is unassigned
  cur_row,            \* _solve's loop variable, augment's argument
  pc,                 \* "loop" | "search" | "dual" | "walk" | "done" | "infeasible" | "ub"
  minVal, row_idx, num_remaining, remaining,
  path, shortestPathCosts, SR, SC, sink,
  col_idx,            \* the column of the path walk
  entry,              \* cur_row and the four arrays as the running augment got them
  calls               \* the number of augment calls made so far

vars == <<cost_matrix, nr, nc, u, v, row4col, col4row, cur_row, pc,
          minVal, row_idx, num_remaining, remaining,
          path, shortestPathCosts, SR, SC, sink, col_idx, entry, calls>>

duals == <<u, v>>
assignment == <<row4col, col4row>>
scratch == <<minVal, row_idx, num_remaining, remaining,
             path, shortestPathCosts, SR, SC, sink, col_idx>>
input == <<cost_matrix, nr, nc>>
hist == <<entry, calls>>

Rows == 0 .. nr - 1
Cols == 0 .. nc - 1

\* ------------------------------------------------------------------ inputs
\* A literal matrix, written as a tuple of rows, as the 0-based cost view.
Mat(rows) ==
  [i \in 0 .. Len(rows) - 1 |-> [j \in 0 .. Len(rows[1]) - 1 |-> rows[i + 1][j + 1]]]

\* The literal scenarios of the specification (S1..S5).
Scenarios ==
  { Mat(<< <<5, 5, 5>>, <<5, 5, 5>>, <<5, 5, 5>> >>),
    Mat(<< <<0, 0, 1>>, <<1, 0, 2>> >>),
    Mat(<< <<4, 1, 3>>, <<2, 0, 5>>, <<3, 2, 2>> >>),
    Mat(<< <<Inf, Inf>>, <<1, 2>> >>),
    Mat(<< <<1, 2, 3>>, <<4, 5, 6>> >>) }

FiniteVals == 0 .. MaxCost

BarredVals == (0 .. MaxBarredCost) \cup {Inf}

Shapes == { q \in (1 .. MaxNr) \X (1 .. MaxNc) : q[1] <= q[2] }

\* Every matrix with 1 <= nr <= nc within the bounds, finite or with
\* forbidden edges, and the scenarios.
Matrices ==
  Scenarios
  \cup UNION { [0 .. p[1] - 1 -> [0 .. p[2] - 1 -> FiniteVals]] : p \in Shapes }
  \cup UNION { [0 .. p[1] - 1 -> [0 .. p[2] - 1 -> BarredVals]] : p \in Shapes }

AugShapes == { q \in (1 .. MaxAugNr) \X (1 .. MaxAugNc) : q[1] <= q[2] }

\* The matrices of the direct calls of augment.
AugMatrices ==
  Scenarios
  \cup UNION { [0 .. p[1] - 1 -> [0 .. p[2] - 1 -> FiniteVals]] : p \in AugShapes }
  \cup UNION { [0 .. p[1] - 1 -> [0 .. p[2] - 1 -> BarredVals]] : p \in AugShapes }

\* ------------------------------------------------------------------ arithmetic
\* IEEE addition and subtraction on the values the model uses: an infinite
\* operand makes the result infinite.  (Inf - Inf, a NaN, needs an infinite
\* dual or an infinite minVal and is excluded by NoNaN below.)
Add(a, b) ==
  IF a >= Inf \/ b >= Inf THEN Inf
  ELSE IF a <= -Inf \/ b <= -Inf THEN -Inf
  ELSE a + b

Sub(a, b) == Add(a, -b)

\* ------------------------------------------------------------------ augment
\* lap.h:336-341, the initial order of the remaining columns.
InitRemaining(it) == it

\* Mutant: the path cost so far is left out of the candidate distance.
CandidateNoMin(mv, c, ui, vj) == Sub(Sub(c, ui), vj)

\* lap.h:365, r = minVal + cost_data(row_idx, j) - u_data(row_idx) - v_data(j).
Candidate(mv, c, ui, vj) == Sub(Sub(Add(mv, c), ui), vj)

\* Mutant: the relaxation test is flipped.
ImprovesFlipped(r, spcj) == r > spcj

\* lap.h:366, the relaxation test.
Improves(r, spcj) == r < spcj

\* Mutant: no tie-break, only a strictly lower cost selects.
SelectsNoTie(spcj, lowest, r4c) == spcj < lowest

\* lap.h:374-375, the selection test with its tie-break.
Selects(spcj, lowest, r4c) ==
  spcj < lowest \/ (spcj = lowest /\ r4c = -1)

\* lap.h:363-378, the body of the scan loop for position it.
ScanStep(it, st) ==
  LET j == remaining[it]
      r == Candidate(minVal, cost_matrix[row_idx][j], u[row_idx], v[j])
      better == Improves(r, st.spc[j])
      path2 == IF better THEN [st.path EXCEPT ![j] = row_idx] ELSE st.path
      spc2 == IF better THEN [st.spc EXCEPT ![j] = r] ELSE st.spc
      sel == Selects(spc2[j], st.lowest, row4col[j])
  IN [path |-> path2, spc |-> spc2,
      lowest |-> IF sel THEN spc2[j] ELSE st.lowest,
      index |-> IF sel THEN it ELSE st.index]

\* lap.h:358-379, the scan loop from position it on.  (The state after
\* position it is bound as a value before the loop goes on, so that it is
\* computed once.)
RECURSIVE Scan(_, _)
Scan(it, st) ==
  IF it >= num_remaining THEN st
  ELSE CHOOSE y \in { Scan(it + 1, x) : x \in {ScanStep(it, st)} } : TRUE

\* Mutant: the infeasibility test is left out (the TODO of lap.h:384).
IsInfeasibleNever(mv) == FALSE

\* lap.h:385, the infeasibility test.
IsInfeasible(mv) == mv = Inf

\* Mutant: the search stops at the first selected column, assigned or not.
IsSinkAlways(r4c) == TRUE

\* lap.h:389, the selected column ends the search when it is unassigned.
IsSink(r4c) == r4c = -1

\* Mutant: the last position is dropped, whichever column was selected.
RemoveAtLast(rem, n, index) == [it \in 0 .. n - 2 |-> rem[it]]

\* lap.h:396-397, swap-with-last removal of position index.
RemoveAt(rem, n, index) ==
  [it \in 0 .. n - 2 |-> IF it = index THEN rem[n - 1] ELSE rem[it]]

\* Mutant: every scanned row is raised by minVal, as cur_row is.
NewUAllMin(i) == IF SR[i] THEN Add(u[i], minVal) ELSE u[i]

\* Mutant: only the dual of cur_row is updated.
NewUCurOnly(i) == IF i = cur_row THEN Add(u[i], minVal) ELSE u[i]

\* lap.h:402-411, the new dual of row i.
NewU(i) ==
  IF SR[i]
  THEN IF i = cur_row
       THEN Add(u[i], minVal)
       ELSE Add(u[i], Sub(minVal, shortestPathCosts[col4row[i]]))
  ELSE u[i]

\* Mutant: the column dual is raised instead of lowered.
NewVRaised(j) ==
  IF SC[j] THEN Add(v[j], Sub(minVal, shortestPathCosts[j])) ELSE v[j]

\* Mutant: the column duals are not updated.
NewVKept(j) == v[j]

\* Mutant: the test of SC[j] is left out of the column update.
NewVNoTest(j) == Sub(v[j], Sub(minVal, shortestPathCosts[j]))

\* lap.h:413-417, the new dual of column j.
NewV(j) ==
  IF SC[j] THEN Sub(v[j], Sub(minVal, shortestPathCosts[j])) ELSE v[j]

\* Mutant: the walk writes cur_row, not the predecessor row, into row4col.
WalkRowCur(r) == cur_row

\* lap.h:423, the row written into row4col at the walked column.
WalkRow(r) == r

\* Mutant: the swap does not reach col4row, which keeps its old column.
WalkColKept(c) == col4row[path[c]]

\* Mutant: only the row that takes the sink keeps a column.
WalkColSinkOnly(c) == IF c = sink THEN c ELSE -1

\* lap.h:424, the column written into col4row by the swap.
WalkCol(c) == c

\* ------------------------------------------------------------------ _solve
\* lap.h:441-453: the state after _fill, before the first augment.
InitOn(M) ==
  /\ cost_matrix \in M
  /\ nr = Cardinality(DOMAIN cost_matrix)
  /\ nc = Cardinality(DOMAIN cost_matrix[0])
  /\ u = [i \in 0 .. nr - 1 |-> 0]
  /\ v = [j \in 0 .. nc - 1 |-> 0]
  /\ row4col = [j \in 0 .. nc - 1 |-> -1]
  /\ col4row = [i \in 0 .. nr - 1 |-> -1]
  /\ cur_row = 0
  /\ pc = "loop"
  /\ minVal = 0
  /\ row_idx = 0
  /\ num_remaining = 0
  /\ remaining = << >>
  /\ path = << >>
  /\ shortestPathCosts = << >>
  /\ SR = << >>
  /\ SC = << >>
  /\ sink = -1
  /\ col_idx = -1
  /\ entry = [cur_row |-> 0, row4col |-> row4col, col4row |-> col4row,
              u |-> u, v |-> v]
  /\ calls = 0

Init == InitOn(Matrices)

\* lap.h:310-355: augment is entered with cur_row = r and sets up its scratch.
EnterAugment(r) ==
  /\ cur_row' = r
  /\ entry' = [cur_row |-> r, row4col |-> row4col, col4row |-> col4row,
               u |-> u, v |-> v]
  /\ calls' = calls + 1
  /\ minVal' = 0
  /\ row_idx' = r
  /\ num_remaining' = nc
  /\ remaining' = [it \in 0 .. nc - 1 |-> InitRemaining(it)]
  /\ path' = [j \in Cols |-> -1]
  /\ shortestPathCosts' = [j \in Cols |-> Inf]
  /\ SR' = [i \in Rows |-> FALSE]
  /\ SC' = [j \in Cols |-> FALSE]
  /\ sink' = -1
  /\ col_idx' = -1
  /\ pc' = "search"
  /\ UNCHANGED <<input, duals, assignment>>

\* lap.h:456-457: _solve calls augment(cur_row).
AugmentCall ==
  /\ pc = "loop"
  /\ cur_row < nr
  /\ EnterAugment(cur_row)

\* Mutant: the dual of cur_row is raised by minVal inside the search loop
\* (the statement commented out at lap.h:401), before the infeasibility test.
SearchStepEagerDual ==
  /\ pc = "search"
  /\ sink = -1
  /\ IF row_idx \notin Rows
     THEN /\ pc' = "ub"
          /\ UNCHANGED <<scratch, u>>
     ELSE
     LET res == Scan(0, [path |-> path, spc |-> shortestPathCosts,
                         lowest |-> Inf, index |-> -1])
     IN /\ SR' = [SR EXCEPT ![row_idx] = TRUE]
        /\ path' = res.path
        /\ shortestPathCosts' = res.spc
        /\ minVal' = res.lowest
        /\ col_idx' = col_idx
        /\ IF res.index = -1
           THEN /\ pc' = "ub"
                /\ UNCHANGED <<row_idx, num_remaining, remaining, SC, sink, u>>
           ELSE LET j == remaining[res.index]
                IN IF IsInfeasible(res.lowest)
                   THEN /\ pc' = "infeasible"
                        /\ u' = [u EXCEPT ![cur_row] = Add(u[cur_row], res.lowest)]
                        /\ UNCHANGED <<row_idx, num_remaining, remaining, SC, sink>>
                   ELSE /\ sink' = IF IsSink(row4col[j]) THEN j ELSE sink
                        /\ row_idx' = IF IsSink(row4col[j]) THEN row_idx ELSE row4col[j]
                        /\ SC' = [SC EXCEPT ![j] = TRUE]
                        /\ remaining' = RemoveAt(remaining, num_remaining, res.index)
                        /\ num_remaining' = num_remaining - 1
                        /\ pc' = IF IsSink(row4col[j]) THEN "dual" ELSE "search"
                        /\ u' = u
  /\ UNCHANGED <<input, v, assignment, cur_row, hist>>

\* lap.h:356-398: one iteration of the search loop.  A row_idx outside
\* [0, nr) writes SR and reads the cost view out of bounds, and with index
\* left at -1 the read remaining[-1] is out of bounds: both are undefined
\* behaviour, and pc "ub" stands for every outcome of it.
SearchStep ==
  /\ pc = "search"
  /\ sink = -1
  /\ IF row_idx \notin Rows
     THEN /\ pc' = "ub"
          /\ UNCHANGED scratch
     ELSE
     LET res == Scan(0, [path |-> path, spc |-> shortestPathCosts,
                         lowest |-> Inf, index |-> -1])
     IN /\ SR' = [SR EXCEPT ![row_idx] = TRUE]
        /\ path' = res.path
        /\ shortestPathCosts' = res.spc
        /\ minVal' = res.lowest
        /\ col_idx' = col_idx
        /\ IF res.index = -1
           THEN /\ pc' = "ub"
                /\ UNCHANGED <<row_idx, num_remaining, remaining, SC, sink>>
           ELSE LET j == remaining[res.index]
                IN IF IsInfeasible(res.lowest)
                   THEN /\ pc' = "infeasible"
                        /\ UNCHANGED <<row_idx, num_remaining, remaining, SC, sink>>
                   ELSE /\ sink' = IF IsSink(row4col[j]) THEN j ELSE sink
                        /\ row_idx' = IF IsSink(row4col[j]) THEN row_idx ELSE row4col[j]
                        /\ SC' = [SC EXCEPT ![j] = TRUE]
                        /\ remaining' = RemoveAt(remaining, num_remaining, res.index)
                        /\ num_remaining' = num_remaining - 1
                        /\ pc' = IF IsSink(row4col[j]) THEN "dual" ELSE "search"
  /\ UNCHANGED <<input, duals, assignment, cur_row, hist>>

\* lap.h:400-420: the dual update, then col_idx = sink.  A scanned row other
\* than cur_row with col4row = -1 reads shortestPathCosts[-1].
DualUpdate ==
  /\ pc = "dual"
  /\ IF \E i \in Rows : SR[i] /\ i # cur_row /\ col4row[i] = -1
     THEN /\ pc' = "ub"
          /\ UNCHANGED <<duals, col_idx>>
     ELSE /\ u' = [i \in Rows |-> NewU(i)]
          /\ v' = [j \in Cols |-> NewV(j)]
          /\ col_idx' = sink
          /\ pc' = "walk"
  /\ UNCHANGED <<input, assignment, cur_row, minVal, row_idx, num_remaining,
                 remaining, path, shortestPathCosts, SR, SC, sink, hist>>

\* lap.h:421-428 and 456: one iteration of the path walk; at cur_row augment
\* returns and _solve moves to the next row.  Walking from column -1, or to
\* row -1, indexes out of bounds.
WalkStep ==
  /\ pc = "walk"
  /\ IF col_idx = -1 \/ path[col_idx] = -1
     THEN /\ pc' = "ub"
          /\ UNCHANGED <<assignment, row_idx, col_idx, cur_row>>
     ELSE LET r == path[col_idx]
          IN /\ row_idx' = r
             /\ row4col' = [row4col EXCEPT ![col_idx] = WalkRow(r)]
             /\ col4row' = [col4row EXCEPT ![r] = WalkCol(col_idx)]
             /\ col_idx' = col4row[r]
             /\ IF r = cur_row
                THEN pc' = "loop" /\ cur_row' = cur_row + 1
                ELSE pc' = "walk" /\ UNCHANGED cur_row
  /\ UNCHANGED <<input, duals, minVal, num_remaining, remaining, path,
                 shortestPathCosts, SR, SC, sink, hist>>

\* lap.h:456 and 460: the loop ends and _solve returns the four arrays.
SolveReturn ==
  /\ pc = "loop"
  /\ cur_row >= nr
  /\ pc' = "done"
  /\ UNCHANGED <<input, duals, assignment, cur_row, scratch, hist>>

Next ==
  \/ AugmentCall
  \/ SearchStep
  \/ DualUpdate
  \/ WalkStep
  \/ SolveReturn

Spec == Init /\ [][Next]_vars

\* The matrices of the termination check: the scenarios, and the largest
\* shape on the costs 0..MaxLiveCost.
LiveMatrices ==
  Scenarios \cup [0 .. MaxNr - 1 -> [0 .. MaxNc - 1 -> 0 .. MaxLiveCost]]

\* _solve is sequential code: a statement that can run does run.
SpecLive == InitOn(LiveMatrices) /\ [][Next]_vars /\ WF_vars(Next)

\* ------------------------------------------------------------------ _solve on any shape
BadShapes == { q \in (1 .. MaxNr) \X (1 .. MaxNc) : q[1] > q[2] }

\* The matrices with more rows than columns.
BadShapeMatrices ==
  UNION { [0 .. p[1] - 1 -> [0 .. p[2] - 1 -> FiniteVals]] : p \in BadShapes }
  \cup UNION { [0 .. p[1] - 1 -> [0 .. p[2] - 1 -> BarredVals]] : p \in BadShapes }

\* lap.h:441-458: _solve takes the shape as it comes.
SpecAnyShape == InitOn(AugMatrices \cup BadShapeMatrices) /\ [][Next]_vars

\* ------------------------------------------------------------------ _augment.cpp
\* The int/double variant of augment and _solve in _augment.cpp.  Its scan
\* loop (lines 118-135) and its path walk (lines 197-206) are those of
\* lap.h, so Scan and WalkStep serve for both.

\* _augment.cpp:88-92, the initial order of the remaining columns.
InitRemainingCpp(it) == nc - it - 1

\* _augment.cpp:79-105 and 236-238: _solve calls augment(cur_row), which sets
\* up its scratch.
AugmentCallCpp ==
  /\ pc = "loop"
  /\ cur_row < nr
  /\ entry' = [cur_row |-> cur_row, row4col |-> row4col, col4row |-> col4row,
               u |-> u, v |-> v]
  /\ calls' = calls + 1
  /\ minVal' = 0
  /\ row_idx' = cur_row
  /\ num_remaining' = nc
  /\ remaining' = [it \in 0 .. nc - 1 |-> InitRemainingCpp(it)]
  /\ path' = [j \in Cols |-> -1]
  /\ shortestPathCosts' = [j \in Cols |-> Inf]
  /\ SR' = [i \in Rows |-> FALSE]
  /\ SC' = [j \in Cols |-> FALSE]
  /\ sink' = -1
  /\ col_idx' = -1
  /\ pc' = "search"
  /\ UNCHANGED <<input, duals, assignment, cur_row>>

\* _augment.cpp:106-169: one iteration of the search loop.  The test for an
\* infinite minVal is commented out (lines 153-156); remaining[index] is read
\* with index left at -1 when no column is selected.
SearchStepCpp ==
  /\ pc = "search"
  /\ sink = -1
  /\ LET res == Scan(0, [path |-> path, spc |-> shortestPathCosts,
                         lowest |-> Inf, index |-> -1])
     IN /\ SR' = [SR EXCEPT ![row_idx] = TRUE]
        /\ path' = res.path
        /\ shortestPathCosts' = res.spc
        /\ col_idx' = col_idx
        /\ IF res.index = -1
           THEN /\ pc' = "ub"
                /\ UNCHANGED <<minVal, row_idx, num_remaining, remaining, SC, sink>>
           ELSE LET j == remaining[res.index]
                IN /\ minVal' = res.lowest
                   /\ sink' = IF row4col[j] = -1 THEN j ELSE sink
                   /\ row_idx' = IF row4col[j] = -1 THEN row_idx ELSE row4col[j]
                   /\ SC' = [SC EXCEPT ![j] = TRUE]
                   /\ remaining' = RemoveAt(remaining, num_remaining, res.index)
                   /\ num_remaining' = num_remaining - 1
                   /\ pc' = IF row4col[j] = -1 THEN "dual" ELSE "search"
  /\ UNCHANGED <<input, duals, assignment, cur_row, hist>>

\* _augment.cpp:178-184, the new dual of row i: the row set apart is row_idx,
\* the last row scanned.
NewUCpp(i) ==
  IF SR[i]
  THEN IF i = row_idx
       THEN Add(u[i], minVal)
       ELSE Add(u[i], Sub(minVal, shortestPathCosts[col4row[i]]))
  ELSE u[i]

\* _augment.cpp:172-197: the dual update, then col_idx = sink.  A scanned row
\* other than row_idx with col4row = -1 reads shortestPathCosts[-1].
DualUpdateCpp ==
  /\ pc = "dual"
  /\ IF \E i \in Rows : SR[i] /\ i # row_idx /\ col4row[i] = -1
     THEN /\ pc' = "ub"
          /\ UNCHANGED <<duals, col_idx>>
     ELSE /\ u' = [i \in Rows |-> NewUCpp(i)]
          /\ v' = [j \in Cols |-> NewV(j)]
          /\ col_idx' = sink
          /\ pc' = "walk"
  /\ UNCHANGED <<input, assignment, cur_row, minVal, row_idx, num_remaining,
                 remaining, path, shortestPathCosts, SR, SC, sink, hist>>

NextCpp ==
  \/ AugmentCallCpp
  \/ SearchStepCpp
  \/ DualUpdateCpp
  \/ WalkStep
  \/ SolveReturn

\* The finite matrices with 1 <= nr <= nc within the bounds.
FiniteMatrices ==
  { m \in Matrices : \A i \in DOMAIN m : \A j \in DOMAIN m[i] : m[i][j] < Inf }

SpecCpp == InitOn(FiniteMatrices) /\ [][NextCpp]_vars

\* ------------------------------------------------------------------ _solve on signed costs
SignedVals == (-MaxSignedCost) .. MaxSignedCost

\* The matrices with entries of either sign.
SignedMatrices ==
  UNION { [0 .. p[1] - 1 -> [0 .. p[2] - 1 -> SignedVals]] : p \in AugShapes }

\* lap.h:437-462: _solve puts no condition on the sign of the costs.
SpecSigned == InitOn(SignedMatrices) /\ [][Next]_vars

\* ------------------------------------------------------------------ augment, called directly
\* lap.h:464-477, 490: augment is exported as it is, so a caller may call it
\* with any cur_row, in range or not, on the arrays it holds: here the
\* arrays of a fresh solve and those left by its earlier calls.  (Between
\* two calls cur_row is dead: the next call overwrites it.)
AugmentEntry ==
  /\ pc = "loop"
  /\ calls < MaxCalls
  /\ \E r \in -1 .. nr : EnterAugment(r)

NextAug ==
  \/ AugmentEntry
  \/ SearchStep
  \/ DualUpdate
  \/ WalkStep

SpecAug == InitOn(AugMatrices) /\ [][NextAug]_vars

\* ------------------------------------------------------------------ _solve as a function
\* The same code, as a function of the program state held in a record: it
\* lets a formula speak of the run of _solve on another matrix.
CurRec ==
  [cost_matrix |-> cost_matrix, nr |-> nr, nc |-> nc, u |-> u, v |-> v,
   row4col |-> row4col, col4row |-> col4row, cur_row |-> cur_row, pc |-> pc,
   minVal |-> minVal, row_idx |-> row_idx, num_remaining |-> num_remaining,
   remaining |-> remaining, path |-> path,
   shortestPathCosts |-> shortestPathCosts, SR |-> SR, SC |-> SC,
   sink |-> sink, col_idx |-> col_idx]

\* lap.h:441-453: the state of _solve on the matrix m after _fill.
InitRec(m) ==
  LET r == Cardinality(DOMAIN m)
      c == Cardinality(DOMAIN m[0])
  IN [cost_matrix |-> m, nr |-> r, nc |-> c,
      u |-> [i \in 0 .. r - 1 |-> 0], v |-> [j \in 0 .. c - 1 |-> 0],
      row4col |-> [j \in 0 .. c - 1 |-> -1],
      col4row |-> [i \in 0 .. r - 1 |-> -1],
      cur_row |-> 0, pc |-> "loop", minVal |-> 0, row_idx |-> 0,
      num_remaining |-> 0, remaining |-> << >>, path |-> << >>,
      shortestPathCosts |-> << >>, SR |-> << >>, SC |-> << >>,
      sink |-> -1, col_idx |-> -1]

\* lap.h:363-378, the body of the scan loop for position it.
ScanStepOf(s, it, st) ==
  LET j == s.remaining[it]
      r == Candidate(s.minVal, s.cost_matrix[s.row_idx][j], s.u[s.row_idx], s.v[j])
      better == Improves(r, st.spc[j])
      path2 == IF better THEN [st.path EXCEPT ![j] = s.row_idx] ELSE st.path
      spc2 == IF better THEN [st.spc EXCEPT ![j] = r] ELSE st.spc
      sel == Selects(spc2[j], st.lowest, s.row4col[j])
  IN [path |-> path2, spc |-> spc2,
      lowest |-> IF sel THEN spc2[j] ELSE st.lowest,
      index |-> IF sel THEN it ELSE st.index]

\* lap.h:358-379, the scan loop from position it on.
RECURSIVE ScanOf(_, _, _)
ScanOf(s, it, st) ==
  IF it >= s.num_remaining THEN st ELSE ScanOf(s, it + 1, ScanStepOf(s, it, st))

\* lap.h:402-411, the new dual of row i.
NewUOf(s, i) ==
  IF s.SR[i]
  THEN IF i = s.cur_row
       THEN Add(s.u[i], s.minVal)
       ELSE Add(s.u[i], Sub(s.minVal, s.shortestPathCosts[s.col4row[i]]))
  ELSE s.u[i]

\* lap.h:413-417, the new dual of column j.
NewVOf(s, j) ==
  IF s.SC[j]
  THEN Sub(s.v[j], Sub(s.minVal, s.shortestPathCosts[j]))
  ELSE s.v[j]

\* lap.h:326-355 and 456-460: the call of augment, or the return of _solve.
LoopOf(s) ==
  IF s.cur_row < s.nr
  THEN [s EXCEPT !.minVal = 0, !.row_idx = s.cur_row, !.num_remaining = s.nc,
                 !.remaining = [it \in 0 .. s.nc - 1 |-> InitRemaining(it)],
                 !.path = [j \in 0 .. s.nc - 1 |-> -1],
                 !.shortestPathCosts = [j \in 0 .. s.nc - 1 |-> Inf],
                 !.SR = [i \in 0 .. s.nr - 1 |-> FALSE],
                 !.SC = [j \in 0 .. s.nc - 1 |-> FALSE],
                 !.sink = -1, !.col_idx = -1, !.pc = "search"]
  ELSE [s EXCEPT !.pc = "done"]

\* lap.h:356-398: one iteration of the search loop.
SearchOf(s) ==
  IF s.row_idx \notin 0 .. s.nr - 1
  THEN [s EXCEPT !.pc = "ub"]
  ELSE
  LET res == ScanOf(s, 0, [path |-> s.path, spc |-> s.shortestPathCosts,
                           lowest |-> Inf, index |-> -1])
      t == [s EXCEPT !.SR = [s.SR EXCEPT ![s.row_idx] = TRUE],
                     !.path = res.path, !.shortestPathCosts = res.spc,
                     !.minVal = res.lowest]
  IN IF res.index = -1
     THEN [t EXCEPT !.pc = "ub"]
     ELSE LET j == s.remaining[res.index]
          IN IF IsInfeasible(res.lowest)
             THEN [t EXCEPT !.pc = "infeasible"]
             ELSE [t EXCEPT
                     !.sink = IF IsSink(s.row4col[j]) THEN j ELSE s.sink,
                     !.row_idx = IF IsSink(s.row4col[j]) THEN s.row_idx
                                 ELSE s.row4col[j],
                     !.SC = [s.SC EXCEPT ![j] = TRUE],
                     !.remaining = RemoveAt(s.remaining, s.num_remaining, res.index),
                     !.num_remaining = s.num_remaining - 1,
                     !.pc = IF IsSink(s.row4col[j]) THEN "dual" ELSE "search"]

\* lap.h:400-420: the dual update.
DualOf(s) ==
  IF \E i \in 0 .. s.nr - 1 : s.SR[i] /\ i # s.cur_row /\ s.col4row[i] = -1
  THEN [s EXCEPT !.pc = "ub"]
  ELSE [s EXCEPT !.u = [i \in 0 .. s.nr - 1 |-> NewUOf(s, i)],
                 !.v = [j \in 0 .. s.nc - 1 |-> NewVOf(s, j)],
                 !.col_idx = s.sink, !.pc = "walk"]

\* lap.h:421-428 and 456: one iteration of the path walk.
WalkOf(s) ==
  IF s.col_idx = -1 \/ s.path[s.col_idx] = -1
  THEN [s EXCEPT !.pc = "ub"]
  ELSE LET r == s.path[s.col_idx]
       IN [s EXCEPT !.row_idx = r,
                    !.row4col = [s.row4col EXCEPT ![s.col_idx] = WalkRow(r)],
                    !.col4row = [s.col4row EXCEPT ![r] = WalkCol(s.col_idx)],
                    !.col_idx = s.col4row[r],
                    !.pc = IF r = s.cur_row THEN "loop" ELSE "walk",
                    !.cur_row = IF r = s.cur_row THEN s.cur_row + 1 ELSE s.cur_row]

\* One step of _solve from the state s.
StepOf(s) ==
  CASE s.pc = "loop" -> LoopOf(s)
    [] s.pc = "search" -> SearchOf(s)
    [] s.pc = "dual" -> DualOf(s)
    [] s.pc = "walk" -> WalkOf(s)
    [] OTHER -> s

\* _solve run from the state s to its end.
RECURSIVE RunOf(_)
RunOf(s) ==
  IF s.pc \in {"done", "infeasible", "ub"} THEN s ELSE RunOf(StepOf(s))

\* lap.h:437-462: the final state of _solve on the matrix m.
SolveOf(m) == RunOf(InitRec(m))

\* Every step of _solve is the step the function takes.
StepAgrees == [][CurRec' = StepOf(CurRec)]_vars

\* ------------------------------------------------------------------ lap, the Jonker-Volgenant driver
\* lap and its augment (lap.h:18-258) keep rowsol, colsol and v only; rowsol
\* is held in col4row and colsol in row4col, as the comments of lap.h:185
\* and 188 name them.  The locals of one augment call are a record s with
\* the fields d, pred, collist, low, up, last, min, endofpath and found
\* (unassigned_found); st is "run", "infeasible" after the throw, or "ub"
\* after an out-of-bounds access.

\* lap.h:37-50: the locals of augment at the start of its search.
JvInit(freerow) ==
  [d |-> [j \in Cols |-> Sub(cost_matrix[freerow][j], v[j])],
   pred |-> [j \in Cols |-> freerow],
   collist |-> [k \in 0 .. nc - 1 |-> nc - k - 1],
   low |-> 0, up |-> 0, last |-> 0, min |-> 0,
   endofpath |-> -1, found |-> FALSE, st |-> "run"]

\* lap.h:57-69: the scan of collist[k .. nc-1] for the columns at the new
\* minimum, gathered in collist[low .. up-1].
RECURSIVE JvScanMin(_, _)
JvScanMin(k, s) ==
  IF k >= nc THEN s
  ELSE LET j == s.collist[k]
           h == s.d[j]
       IN IF h <= s.min
          THEN LET up1 == IF h < s.min THEN s.low ELSE s.up
               IN JvScanMin(k + 1,
                    [s EXCEPT !.min = h,
                              !.up = up1 + 1,
                              !.collist = [s.collist EXCEPT ![k] = s.collist[up1],
                                                            ![up1] = j]])
          ELSE JvScanMin(k + 1, s)

\* lap.h:73-79: the first unassigned column among collist[k .. up-1].
RECURSIVE JvFindFree(_, _)
JvFindFree(k, s) ==
  IF k >= s.up THEN s
  ELSE IF row4col[s.collist[k]] < 0
       THEN [s EXCEPT !.endofpath = s.collist[k], !.found = TRUE]
       ELSE JvFindFree(k + 1, s)

\* lap.h:52-80: when no column is left at the current minimum, the next
\* minimum is taken.  With up = nc the read collist[up] is out of bounds.
JvNewMin(s) ==
  IF s.up # s.low THEN s
  ELSE IF s.up >= nc THEN [s EXCEPT !.st = "ub"]
  ELSE LET s1 == [s EXCEPT !.last = s.low - 1,
                           !.min = s.d[s.collist[s.up]],
                           !.up = s.up + 1]
           s2 == JvScanMin(s1.up, s1)
       IN JvFindFree(s2.low, s2)

\* lap.h:93-111: the distances of collist[k .. nc-1] through row i, whose
\* column stands at reduced cost h below the minimum.
RECURSIVE JvRelax(_, _, _, _)
JvRelax(k, i, h, s) ==
  IF k >= nc THEN s
  ELSE LET j == s.collist[k]
           v2 == Sub(Sub(cost_matrix[i][j], v[j]), h)
       IN IF v2 < s.d[j]
          THEN IF v2 = s.min
               THEN IF row4col[j] < 0
                    THEN [s EXCEPT !.pred[j] = i, !.endofpath = j, !.found = TRUE]
                    ELSE JvRelax(k + 1, i, h,
                           [s EXCEPT !.pred[j] = i,
                                     !.d[j] = v2,
                                     !.up = s.up + 1,
                                     !.collist = [s.collist EXCEPT ![k] = s.collist[s.up],
                                                                   ![s.up] = j]])
               ELSE JvRelax(k + 1, i, h, [s EXCEPT !.pred[j] = i, !.d[j] = v2])
          ELSE JvRelax(k + 1, i, h, s)

\* lap.h:86-112: the next column at the minimum is scanned.  Its row is
\* colsol[j1]; a negative one indexes the cost matrix out of bounds.
JvScanColumn(s) ==
  LET j1 == s.collist[s.low]
      i == row4col[j1]
  IN IF i \notin Rows THEN [s EXCEPT !.st = "ub"]
     ELSE JvRelax(s.up, i, Sub(Sub(cost_matrix[i][j1], v[j1]), s.min),
                  [s EXCEPT !.low = s.low + 1])

\* lap.h:51-113: the do-while loop of the search.
RECURSIVE JvSearch(_)
JvSearch(s) ==
  LET s1 == JvNewMin(s)
  IN IF s1.st = "ub" THEN s1
     ELSE IF s1.min = Inf THEN [s1 EXCEPT !.st = "infeasible"]
     ELSE IF s1.found THEN s1
     ELSE LET s2 == JvScanColumn(s1)
          IN IF s2.st = "ub" \/ s2.found THEN s2 ELSE JvSearch(s2)

\* Mutant: the column prices are left as they are.
JvNewVKept(s, j) == v[j]

\* lap.h:119-122: the price of column j after the call.
JvNewV(s, j) ==
  IF \E k \in 0 .. s.last : s.collist[k] = j
  THEN Sub(Add(v[j], s.d[j]), s.min)
  ELSE v[j]

\* lap.h:125-134: the assignments are reset along the alternating path from
\* endofpath back to freerow.  A row reached with no column ends the walk on
\* pred[-1].
RECURSIVE JvWalk(_, _, _, _, _)
JvWalk(s, freerow, endofpath, rowsol, colsol) ==
  IF endofpath \notin Cols THEN [st |-> "ub", rowsol |-> rowsol, colsol |-> colsol]
  ELSE LET i == s.pred[endofpath]
           colsol1 == [colsol EXCEPT ![endofpath] = i]
           rowsol1 == [rowsol EXCEPT ![i] = endofpath]
       IN IF i = freerow
          THEN [st |-> "run", rowsol |-> rowsol1, colsol |-> colsol1]
          ELSE JvWalk(s, freerow, rowsol[i], rowsol1, colsol1)

\* lap.h:220-223: lap calls augment(freerow), with freerow held in cur_row.
LapAugment ==
  /\ pc = "loop"
  /\ cur_row < nr
  /\ LET s == JvSearch(JvInit(cur_row))
         w == JvWalk(s, cur_row, s.endofpath, col4row, row4col)
     IN IF s.st = "run" /\ w.st = "run"
        THEN /\ v' = [j \in Cols |-> JvNewV(s, j)]
             /\ col4row' = w.rowsol
             /\ row4col' = w.colsol
             /\ cur_row' = cur_row + 1
             /\ pc' = "loop"
        ELSE /\ pc' = IF s.st = "infeasible" THEN "infeasible" ELSE "ub"
             /\ UNCHANGED <<v, assignment, cur_row>>
  /\ entry' = [cur_row |-> cur_row, row4col |-> row4col, col4row |-> col4row,
               u |-> u, v |-> v]
  /\ calls' = calls + 1
  /\ UNCHANGED <<input, u, scratch>>

\* lap.h:220 and 258: the loop over the free rows ends and lap returns.
LapReturn ==
  /\ pc = "loop"
  /\ cur_row >= nr
  /\ pc' = "done"
  /\ UNCHANGED <<input, duals, assignment, cur_row, scratch, hist>>

NextLap ==
  \/ LapAugment
  \/ LapReturn

\* lap.h:184-193: lap starts from rowsol = colsol = -1 and v = 0.
SpecLap == InitOn(FiniteMatrices) /\ [][NextLap]_vars

TypeOK ==
  /\ pc \in {"loop", "search", "dual", "walk", "done", "infeasible", "ub"}
  /\ cur_row \in 0 .. nr
  /\ \A i \in Rows : col4row[i] \in {-1} \cup Cols
  /\ \A j \in Cols : row4col[j] \in {-1} \cup Rows

\* No state of _solve computes Inf - Inf: the duals and, outside the throw,
\* minVal are finite.
NoNaN ==
  /\ \A i \in Rows : u[i] < Inf /\ u[i] > -Inf
  /\ \A j \in Cols : v[j] < Inf /\ v[j] > -Inf
  /\ pc \in {"search", "dual", "walk"} => minVal < Inf

NoUB == pc # "ub"

\* ------------------------------------------------------------------ reference
\* The sum f[0] + ... + f[n-1].
RECURSIVE SumTo(_, _)
SumTo(f, n) == IF n = 0 THEN 0 ELSE Add(SumTo(f, n - 1), f[n - 1])

\* The injective maps of the rows into the columns.
Injections ==
  { a \in [Rows -> Cols] : \A i, k \in Rows : i # k => a[i] # a[k] }

\* The total cost of the assignment a.
AssignCost(a) == SumTo([i \in Rows |-> cost_matrix[i][a[i]]], nr)

\* The brute-force minimum over all injective maps.
MinAssignCost ==
  CHOOSE m \in { AssignCost(a) : a \in Injections } :
    \A a \in Injections : m <= AssignCost(a)

AllFinite == \A i \in Rows, j \in Cols : cost_matrix[i][j] < Inf

Feasible == MinAssignCost < Inf

Reduced(i, j) == cost_matrix[i][j] - u[i] - v[j]

\* ------------------------------------------------------------------ claims
\* C1: when _solve returns normally, col4row is a total injection of the rows
\* into the columns and row4col inverts it.
C1_TotalInjection ==
  pc = "done" =>
    \A i \in Rows :
      /\ col4row[i] \in Cols
      /\ row4col[col4row[i]] = i
      /\ \A k \in Rows : i # k => col4row[i] # col4row[k]

\* A 3-row solve has returned after an augment that re-routed an earlier row.
C1_Witness ==
  /\ pc = "done"
  /\ nr = 3
  /\ \E j \in Cols : path[j] # -1 /\ path[j] # nr - 1 /\ col4row[path[j]] = j

\* C2: on a finite cost matrix the returned assignment has the minimum total
\* cost over all injective maps of the rows into the columns.
C2_Optimal ==
  (pc = "done" /\ AllFinite) => AssignCost(col4row) = MinAssignCost

\* A finite 3-row matrix solved where the row-wise greedy choice is not optimal.
C2_Witness ==
  /\ pc = "done"
  /\ AllFinite
  /\ nr = 3
  /\ MinAssignCost > 0
  /\ \E i \in Rows : cost_matrix[i][col4row[i]] > 0
  /\ \E i \in Rows : \E j \in Cols : cost_matrix[i][j] < cost_matrix[i][col4row[i]]

\* C3: after a normal return the duals are feasible on every finite entry,
\* assigned column or not.
C3_DualFeasible ==
  pc = "done" =>
    \A i \in Rows, j \in Cols : cost_matrix[i][j] < Inf => Reduced(i, j) >= 0

\* A solve has returned with a non-zero column dual and a slack finite edge.
C3_Witness ==
  /\ pc = "done"
  /\ \E j \in Cols : v[j] # 0
  /\ \E i \in Rows, j \in Cols : cost_matrix[i][j] < Inf /\ Reduced(i, j) > 0

\* C4: after a normal return every assigned edge is tight.
C4_Tight ==
  pc = "done" => \A i \in Rows : col4row[i] # -1 => Reduced(i, col4row[i]) = 0

\* A solve has returned whose last augment scanned a row other than cur_row,
\* now assigned along an edge with a lowered column dual.
C4_Witness ==
  /\ pc = "done"
  /\ \E i \in Rows : i # nr - 1 /\ SR[i] /\ v[col4row[i]] < 0 /\ u[i] > 0

\* C5: after a normal return the primal cost equals the dual value: the sum
\* of u plus the sum of v over the assigned columns.
C5_StrongDuality ==
  pc = "done" =>
    AssignCost(col4row) =
      SumTo(u, nr) + SumTo([j \in Cols |-> IF row4col[j] # -1 THEN v[j] ELSE 0], nc)

\* A rectangular solve has returned with positive cost and a negative column dual.
C5_Witness ==
  /\ pc = "done"
  /\ nr < nc
  /\ AssignCost(col4row) > 0
  /\ \E j \in Cols : v[j] < 0

\* C6: _solve raises Infeasible exactly when no injective assignment of all
\* rows has finite total cost, and returns normally when one exists.
C6_InfeasibleIff ==
  /\ pc = "infeasible" => ~Feasible
  /\ pc = "done" => Feasible
  /\ pc # "ub"

\* Infeasible is raised at a later row although every row has a finite entry.
C6_Witness ==
  /\ pc = "infeasible"
  /\ cur_row > 0
  /\ \A i \in Rows : \E j \in Cols : cost_matrix[i][j] < Inf

AllInfRow(r) == \A j \in Cols : cost_matrix[r][j] = Inf

\* C7: when row r has only +infinity entries _solve never gets past row r,
\* and the first search iteration of augment(r) raises Infeasible.
C7_InfRowRaises ==
  \A r \in Rows :
    AllInfRow(r) =>
      /\ cur_row <= r
      /\ pc # "done"
      /\ cur_row = r => pc \in {"loop", "search", "infeasible"}
      /\ (cur_row = r /\ pc = "search") => num_remaining = nc

\* Infeasible is raised in the augment of an all-infinite row that is not
\* the first row.
C7_Witness ==
  /\ pc = "infeasible"
  /\ cur_row > 0
  /\ AllInfRow(cur_row)

\* Every row has exactly one finite entry and they lie in distinct columns.
IsPermutation ==
  /\ nr = nc
  /\ \A i \in Rows : Cardinality({ j \in Cols : cost_matrix[i][j] < Inf }) = 1
  /\ \A i, k \in Rows : \A j \in Cols :
       (i # k /\ cost_matrix[i][j] < Inf) => cost_matrix[k][j] = Inf

\* C8: on a square matrix whose finite entries form a perfect matching,
\* _solve does not raise and returns exactly that matching.
C8_UniqueMatching ==
  IsPermutation =>
    /\ pc \notin {"infeasible", "ub"}
    /\ pc = "done" =>
         \A i \in Rows :
           /\ col4row[i] \in Cols
           /\ cost_matrix[i][col4row[i]] < Inf
           /\ row4col[col4row[i]] = i

\* The unique matching of a 3x3 matrix, not the identity, has been returned.
C8_Witness ==
  /\ pc = "done"
  /\ IsPermutation
  /\ nr = 3
  /\ \A i \in Rows : col4row[i] # i

IsConstant ==
  \A i \in Rows, j \in Cols : cost_matrix[i][j] = cost_matrix[0][0]

\* C9: on a constant cost matrix _solve returns the identity assignment.
C9_ConstantIdentity ==
  (pc = "done" /\ IsConstant) => \A i \in Rows : col4row[i] = i

\* C10: on a normal return with nr < nc exactly nc - nr entries of row4col
\* are -1 and the others are pairwise distinct row indices.
C10_FreeColumns ==
  (pc = "done" /\ nr < nc) =>
    /\ Cardinality({ j \in Cols : row4col[j] = -1 }) = nc - nr
    /\ \A j \in Cols : row4col[j] # -1 => row4col[j] \in Rows
    /\ \A j, k \in Cols : (j # k /\ row4col[j] # -1) => row4col[j] # row4col[k]

\* A 2x3 solve has returned with a column left free that is not the last one.
C10_Witness ==
  /\ pc = "done"
  /\ nr = 2
  /\ nc = 3
  /\ row4col[2] # -1

\* ------------------------------------------------------------------ data-model invariants
AssignedRows(c4r) == { i \in Rows : c4r[i] # -1 }

\* row4col and col4row are mutually inverse partial injections.
AssignmentInv(r4c, c4r) ==
  /\ \A i \in Rows : c4r[i] # -1 => (c4r[i] \in Cols /\ r4c[c4r[i]] = i)
  /\ \A j \in Cols : r4c[j] # -1 => (r4c[j] \in Rows /\ c4r[r4c[j]] = j)

ReducedOf(uu, vv, i, j) == Sub(Sub(cost_matrix[i][j], uu[i]), vv[j])

\* Every assigned pair is tight and every assigned row has non-negative
\* reduced costs.
DualInv(c4r, uu, vv) ==
  \A i \in AssignedRows(c4r) :
    /\ c4r[i] \in Cols
    /\ ReducedOf(uu, vv, i, c4r[i]) = 0
    /\ \A j \in Cols : ReducedOf(uu, vv, i, j) >= 0

\* An augment call has returned normally and no other has started.
Returned == pc = "loop" /\ calls > 0

EntryInv ==
  /\ AssignmentInv(entry.row4col, entry.col4row)
  /\ DualInv(entry.col4row, entry.u, entry.v)

\* C11: an augment called on a free row, in a state where the assignment and
\* dual-feasibility invariants hold, leaves cur_row assigned when it returns
\* normally, with exactly one more assigned row than on entry.
C11_FreeRowAssigned ==
  (/\ Returned
   /\ entry.cur_row \in Rows
   /\ entry.col4row[entry.cur_row] = -1
   /\ EntryInv)
  => /\ col4row[entry.cur_row] # -1
     /\ Cardinality(AssignedRows(col4row))
          = Cardinality(AssignedRows(entry.col4row)) + 1

\* Row 0 was free, was augmented after another row, and took that row's column.
C11_Witness ==
  /\ Returned
  /\ entry.cur_row = 0
  /\ entry.col4row[0] = -1
  /\ EntryInv
  /\ \E i \in Rows : i # 0 /\ entry.col4row[i] # -1 /\ col4row[0] = entry.col4row[i]

S3Matrix == Mat(<< <<4, 1, 3>>, <<2, 0, 5>>, <<3, 2, 2>> >>)

\* The running (or last) augment call was entered with cur_row = r on the
\* arrays _solve returns for the matrix.
EnteredOnSolved(r) ==
  LET f == SolveOf(cost_matrix)
  IN /\ calls > 0
     /\ entry.cur_row = r
     /\ f.pc = "done"
     /\ entry.row4col = f.row4col
     /\ entry.col4row = f.col4row
     /\ entry.u = f.u
     /\ entry.v = f.v

\* C12: augment(0) on the arrays _solve returns for S3 returns normally and
\* leaves row4col, col4row, u and v unchanged, with the invariants holding.
C12_S3RoundTrip ==
  (cost_matrix = S3Matrix /\ EnteredOnSolved(0)) =>
    /\ pc \notin {"ub", "infeasible"}
    /\ Returned =>
         /\ <<row4col, col4row, u, v>>
              = <<entry.row4col, entry.col4row, entry.u, entry.v>>
         /\ AssignmentInv(row4col, col4row)
         /\ DualInv(col4row, u, v)

\* C13: an augment called on an assigned row, with the invariants holding on
\* entry and a column unassigned, returns with row4col and col4row mutually
\* inverse partial injections.
C13_ReaugmentKeepsInverse ==
  (/\ calls > 0
   /\ entry.cur_row \in Rows
   /\ entry.col4row[entry.cur_row] # -1
   /\ EntryInv
   /\ \E j \in Cols : entry.row4col[j] = -1)
  => /\ pc # "ub"
     /\ Returned => AssignmentInv(row4col, col4row)

Shifts == (-MaxShift .. MaxShift) \ {0}

\* The matrix m with k added to every entry.
ShiftBy(m, k) == [i \in DOMAIN m |-> [j \in DOMAIN m[i] |-> Add(m[i][j], k)]]

\* C14: on a finite matrix, _solve on C + k returns the row4col and col4row
\* it returns on C, and a sum of u larger by nr * k.
C14_ShiftInvariant ==
  (pc = "done" /\ AllFinite) =>
    \A k \in Shifts :
      LET f == SolveOf(ShiftBy(cost_matrix, k))
      IN /\ f.pc = "done"
         /\ f.row4col = row4col
         /\ f.col4row = col4row
         /\ SumTo(f.u, nr) = SumTo(u, nr) + nr * k

\* A finite 3-row solve has returned whose last augment went through an
\* assigned column at a positive distance.
C14_Witness ==
  /\ pc = "done"
  /\ AllFinite
  /\ nr = 3
  /\ minVal > 0
  /\ \E i \in Rows : i # nr - 1 /\ SR[i]

\* C15: when an augment call throws Infeasible, u, v, row4col and col4row
\* are as the call got them.
C15_ThrowLeavesArrays ==
  pc = "infeasible" =>
    <<row4col, col4row, u, v>>
      = <<entry.row4col, entry.col4row, entry.u, entry.v>>

\* A call on arrays changed by earlier calls has thrown after finalising a
\* column.
C15_Witness ==
  /\ pc = "infeasible"
  /\ calls >= 2
  /\ \E j \in Cols : SC[j]
  /\ \E i \in Rows : entry.u[i] # 0

\* C16: a matrix with nc < nr is rejected before any augment runs: no call
\* of augment is made on it and _solve ends in no other way.
C16_ShapeRejected ==
  nc < nr => (calls = 0 /\ pc = "loop")

\* C17: a call of augment with cur_row outside [0, nr) is refused at entry:
\* it never starts the search and never reaches an out-of-range access.
C17_IndexRejected ==
  cur_row \notin Rows => pc \notin {"search", "dual", "walk", "ub"}

S2Matrix == Mat(<< <<0, 0, 1>>, <<1, 0, 2>> >>)

\* C18 as stated: on [[0,0,1],[1,0,2]] _solve returns col4row = [0,1] at
\* total cost 0, and the assignment [1,0] is a second optimum of cost 0.
C18_TwoOptima ==
  (cost_matrix = S2Matrix /\ pc = "done") =>
    /\ col4row = (0 :> 0 @@ 1 :> 1)
    /\ AssignCost(col4row) = 0
    /\ AssignCost((0 :> 1 @@ 1 :> 0)) = 0

\* C18, amended: on [[0,0,1],[1,0,2]] _solve returns normally with
\* col4row = [0,1] at total cost 0, and no other assignment has cost 0.
C18_S2Result ==
  cost_matrix = S2Matrix =>
    /\ pc \notin {"infeasible", "ub"}
    /\ pc = "done" =>
         /\ col4row = (0 :> 0 @@ 1 :> 1)
         /\ AssignCost(col4row) = 0
         /\ \A a \in Injections : AssignCost(a) = 0 => a = col4row

\* _solve has returned on the matrix, after the second augment moved row 0
\* from column 1 to column 0.
C18_Witness ==
  /\ cost_matrix = S2Matrix
  /\ pc = "done"
  /\ entry.col4row = (0 :> 1 @@ 1 :> -1)
  /\ col4row = (0 :> 0 @@ 1 :> 1)

\* The columns still in remaining.
RemainingCols == { remaining[it] : it \in 0 .. num_remaining - 1 }

\* C19: in every search iteration the column selected as frontier has the
\* minimum shortestPathCosts among the remaining columns, minVal takes that
\* minimum, and the column is unassigned whenever a remaining column tied at
\* the minimum is unassigned; an iteration that throws found every remaining
\* column at infinity.
C19_SelectsMinimum ==
  [][ pc = "search" =>
        /\ \A j \in Cols :
             (~SC[j] /\ SC'[j]) =>
               /\ j \in RemainingCols
               /\ minVal' = shortestPathCosts'[j]
               /\ \A k \in RemainingCols :
                    shortestPathCosts'[j] <= shortestPathCosts'[k]
               /\ (\E k \in RemainingCols :
                      /\ shortestPathCosts'[k] = shortestPathCosts'[j]
                      /\ row4col[k] = -1)
                  => row4col[j] = -1
        /\ pc' = "infeasible" =>
             \A k \in RemainingCols : shortestPathCosts'[k] = Inf ]_vars

\* A search iteration has just selected an unassigned column although an
\* assigned column, still remaining, ties with it at the minimum.
C19_Witness ==
  /\ pc = "dual"
  /\ calls >= 2
  /\ sink \in Cols
  /\ minVal = shortestPathCosts[sink]
  /\ \E k \in Cols :
       /\ ~SC[k]
       /\ row4col[k] # -1
       /\ shortestPathCosts[k] = shortestPathCosts[sink]

\* C20: during _solve on a finite matrix, whenever an augment call has
\* returned (the last one included), row4col and col4row are mutually inverse
\* partial injections, every assigned pair is tight and every assigned row
\* has non-negative reduced costs.
C20_InvariantsAtReturn ==
  (AllFinite /\ calls > 0 /\ pc \in {"loop", "done"}) =>
    /\ AssignmentInv(row4col, col4row)
    /\ DualInv(col4row, u, v)

\* An augment call other than the last has returned, after re-assigning an
\* earlier row and changing its dual.
C20_Witness ==
  /\ AllFinite
  /\ pc = "loop"
  /\ calls >= 2
  /\ cur_row < nr
  /\ \E i \in Rows :
       /\ entry.col4row[i] # -1
       /\ col4row[i] # entry.col4row[i]
       /\ u[i] # entry.u[i]

\* The dual update of the running (or last) augment call has been made.
DualsUpdated == calls > 0 /\ pc \in {"walk", "loop", "done"}

NoNegativeCost == \A i \in Rows, j \in Cols : cost_matrix[i][j] >= 0

\* C21 as stated: whatever the sign of the costs, the dual update decreases
\* the u of no scanned row, cur_row included, and increases the v of no
\* scanned column.
C21_DualsMonotone ==
  DualsUpdated =>
    /\ \A i \in Rows : SR[i] => u[i] >= entry.u[i]
    /\ \A j \in Cols : SC[j] => v[j] <= entry.v[j]

\* C21, amended: the dual update decreases the u of no scanned row other
\* than cur_row and increases the v of no scanned column; it adds minVal to
\* u[cur_row], which is not a decrease when the matrix has no negative entry.
C21_DualsMonotoneButCurRow ==
  DualsUpdated =>
    /\ \A i \in Rows : (SR[i] /\ i # entry.cur_row) => u[i] >= entry.u[i]
    /\ \A j \in Cols : SC[j] => v[j] <= entry.v[j]
    /\ SR[entry.cur_row]
    /\ u[entry.cur_row] = Add(entry.u[entry.cur_row], minVal)
    /\ NoNegativeCost => u[entry.cur_row] >= entry.u[entry.cur_row]

\* A dual update on a matrix with a negative entry has lowered u[cur_row],
\* raised the u of another scanned row and lowered the v of a scanned column.
C21_Witness ==
  /\ DualsUpdated
  /\ ~NoNegativeCost
  /\ u[entry.cur_row] < entry.u[entry.cur_row]
  /\ \E i \in Rows : SR[i] /\ i # entry.cur_row /\ u[i] > entry.u[i]
  /\ \E j \in Cols : SC[j] /\ v[j] < entry.v[j]

\* The columns the path walk of the running (or last) call has rewritten.
WalkedCols == { j \in Cols : row4col[j] # entry.row4col[j] }

ScannedCols == { j \in Cols : SC[j] }

\* C22: every augment call made by _solve terminates.  Each search iteration
\* that goes on finalises exactly one column, taken out of remaining, so that
\* the columns finalised and the columns remaining always add up to nc; each
\* step of the path walk rewrites a column it has not rewritten before, and
\* at most nr columns are rewritten; a call that has started the search
\* returns or throws Infeasible.
C22_AugmentTerminates ==
  /\ [](pc \in {"search", "dual", "walk"} =>
          /\ num_remaining \in 0 .. nc
          /\ Cardinality(ScannedCols) = nc - num_remaining
          /\ Cardinality(RemainingCols) = num_remaining
          /\ Cardinality(WalkedCols) <= nr)
  /\ [][(pc = "search" /\ pc' \in {"search", "dual"}) =>
          /\ num_remaining' = num_remaining - 1
          /\ \E j \in RemainingCols :
               /\ ~SC[j]
               /\ SC' = [SC EXCEPT ![j] = TRUE]
               /\ RemainingCols' = RemainingCols \ {j}]_vars
  /\ [][pc = "walk" =>
          /\ pc' \in {"walk", "loop"}
          /\ col_idx \notin WalkedCols
          /\ WalkedCols' = WalkedCols \cup {col_idx}]_vars
  /\ (pc = "search" ~> pc \in {"loop", "done", "infeasible"})

\* An augment call has returned after a search of nc iterations and a path
\* walk of nr = 3 steps.
C22_Witness ==
  /\ pc = "loop"
  /\ nr = 3
  /\ num_remaining = 0
  /\ Cardinality(WalkedCols) = 3

\* C23: in the variant of _augment.cpp the dual update adds minVal to
\* u[cur_row] and never indexes shortestPathCosts with -1, and when its
\* _solve has returned every row is assigned along a tight edge.
C23_CppTight ==
  /\ pc # "ub"
  /\ DualsUpdated => u[entry.cur_row] = Add(entry.u[entry.cur_row], minVal)
  /\ pc = "done" =>
       \A i \in Rows :
         /\ col4row[i] \in Cols
         /\ ReducedOf(u, v, i, col4row[i]) = 0

\* C25: during _solve, once an augment call has returned, no v[j] is
\* positive, v[j] = 0 on every unassigned column, and the call has left the
\* v of its sink column as it was.
C25_ColumnDualsNonPositive ==
  (calls > 0 /\ pc \in {"loop", "done"}) =>
    /\ \A j \in Cols : v[j] <= 0
    /\ \A j \in Cols : row4col[j] = -1 => v[j] = 0
    /\ sink \in Cols
    /\ v[sink] = entry.v[sink]

\* An augment call other than the first has returned, having lowered the v
\* of a column, with a column still unassigned.
C25_Witness ==
  /\ pc = "loop"
  /\ calls >= 2
  /\ \E j \in Cols : v[j] < entry.v[j]
  /\ \E j \in Cols : row4col[j] = -1

\* C26: during _solve no step unassigns a row or a column: a row with
\* col4row # -1 keeps col4row # -1 (the column may change), and a column with
\* row4col # -1 keeps row4col # -1.
C26_AssignedSetsGrow ==
  [][ /\ \A i \in Rows : col4row[i] # -1 => col4row'[i] # -1
      /\ \A j \in Cols : row4col[j] # -1 => row4col'[j] # -1 ]_vars

\* An augment call has returned after moving two rows assigned before it to
\* other columns.
C26_Witness ==
  /\ pc = "loop"
  /\ Cardinality({ i \in Rows : /\ entry.col4row[i] # -1
                                 /\ col4row[i] # -1
                                 /\ col4row[i] # entry.col4row[i] }) = 2

\* The columns on the path from column c back to cur_row, by path[] and the
\* col4row of the entry to the call.
RECURSIVE PathColsFrom(_)
PathColsFrom(c) ==
  IF c \notin Cols \/ path[c] \notin Rows THEN {}
  ELSE IF path[c] = entry.cur_row THEN {c}
  ELSE {c} \cup PathColsFrom(entry.col4row[path[c]])

PathCols == PathColsFrom(sink)

PathRows == { path[c] : c \in PathCols }

\* C27: an augment call that has returned normally has left unchanged the u
\* of every row not scanned, the v of every column not scanned, the col4row
\* of every row and the row4col of every column off the path from the sink
\* back to cur_row; and no step changes the cost matrix.
C27_Frame ==
  /\ [](Returned =>
          /\ \A i \in Rows : ~SR[i] => u[i] = entry.u[i]
          /\ \A j \in Cols : ~SC[j] => v[j] = entry.v[j]
          /\ \A i \in Rows \ PathRows : col4row[i] = entry.col4row[i]
          /\ \A j \in Cols \ PathCols : row4col[j] = entry.row4col[j])
  /\ [][cost_matrix' = cost_matrix]_vars

\* A call has returned that changed duals and the assignment and left a
\* row unscanned, a column unscanned, an assigned row and its column off the
\* path.
C27_Witness ==
  /\ Returned
  /\ \E i \in Rows : ~SR[i] /\ u[i] # 0
  /\ \E j \in Cols : ~SC[j] /\ v[j] # 0
  /\ \E i \in Rows \ PathRows : col4row[i] # -1
  /\ Cardinality(PathRows) >= 2
  /\ \E i \in Rows : u[i] # entry.u[i]

\* C28: during _solve every array access of augment is in bounds: a search
\* iteration has a column left and selects one of the positions of remaining,
\* the dual update finds every scanned row other than cur_row assigned, and
\* the path walk stands on a column whose path[] entry is a row.
C28_InBounds ==
  /\ pc # "ub"
  /\ pc = "search" =>
       /\ row_idx \in Rows
       /\ num_remaining >= 1
       /\ Scan(0, [path |-> path, spc |-> shortestPathCosts,
                   lowest |-> Inf, index |-> -1]).index \in 0 .. num_remaining - 1
  /\ pc = "dual" =>
       \A i \in Rows : (SR[i] /\ i # cur_row) => col4row[i] \in Cols
  /\ pc = "walk" => (col_idx \in Cols /\ path[col_idx] \in Rows)

\* The third augment is in its third search iteration, with one column left
\* in remaining and two rows scanned besides cur_row to come.
C28_Witness ==
  /\ pc = "search"
  /\ calls = 3
  /\ num_remaining = 1
  /\ row_idx # cur_row

\* C29: within one augment call the minima stored into minVal, from the
\* first selection on, do not decrease, and no column still in remaining has
\* shortestPathCosts below minVal.
C29_MinimaNonDecreasing ==
  /\ [](pc \in {"search", "dual"} =>
          \A j \in RemainingCols : shortestPathCosts[j] >= minVal)
  /\ [][(pc = "search" /\ ScannedCols # {}) => minVal' >= minVal]_vars

\* A search has selected three columns at three increasing minima.
C29_Witness ==
  /\ pc = "dual"
  /\ Cardinality({ shortestPathCosts[j] : j \in ScannedCols }) = 3
  /\ minVal > 0

\* C24: on a finite matrix with 1 <= nr <= nc lap ends normally; it leaves
\* rowsol a total injection of the rows into the columns and colsol its
\* inverse, -1 on the unused columns; the cost of rowsol is the minimum
\* assignment cost and the cost of the assignment _solve returns.
C24_LapOptimal ==
  /\ pc \notin {"ub", "infeasible"}
  /\ pc = "done" =>
       /\ \A i \in Rows : col4row[i] \in Cols /\ row4col[col4row[i]] = i
       /\ \A j \in Cols : row4col[j] # -1 => (row4col[j] \in Rows /\ col4row[row4col[j]] = j)
       /\ AssignCost(col4row) = MinAssignCost
       /\ SolveOf(cost_matrix).pc = "done"
       /\ AssignCost(col4row) = AssignCost(SolveOf(cost_matrix).col4row)

\* lap has returned on a 3x3 matrix with another assignment than _solve's,
\* at a positive cost, after lowering a column price.
C24_Witness ==
  /\ pc = "done"
  /\ nr = 3
  /\ col4row # SolveOf(cost_matrix).col4row
  /\ MinAssignCost > 0
  /\ \E j \in Cols : v[j] < 0
====
